---- MODULE Spec2Model ----
(***************************************************************************)
(* Session lifecycle, shutdown coordination and worker pipeline of the     *)
(* spray load-testing client (spray.go, session/session.go,                *)
(* session/workers.go).  Every goroutine is a process with a program       *)
(* counter; an unbuffered channel is a rendezvous between one sender and   *)
(* one receiver; a closed channel is a flag.  Time is a discrete clock.    *)
(* The directory validator and the service resolver are operators,        *)
(* applied to every small document by a specification of their own.       *)
(***************************************************************************)
EXTENDS Integers, Sequences, FiniteSets, TLC

\* ------------------------------------------------------------------ bounds
\* External callers of Spray.Shutdown (the fatal-error watcher is caller 0).
NumCallers == 1
\* Callers of Spray.Wait.
NumWaiters == 1
\* Invocations of the transport callbacks (onConnection, onDocument).
MaxCallbacks == 2
\* The clock stops advancing at MaxTime.
MaxTime == 2
\* Probe packets the construction worker composes.
MaxPackets == 2
\* cfg.Debug.SessionDialTimeout and cfg.Debug.InitialMaxPKIRetrievalDelay,
\* in clock ticks.
SessionDialTimeout == 2
InitialMaxPKIRetrievalDelay == 1
\* cfg.Debug.SendRate (tokens per tick) ranges over 1..MaxRate and
\* cfg.Debug.SendBurst over 0..MaxBurst.
MaxRate == 1
MaxBurst == 1
\* Providers of a document handed to isDocValid, FindServices or GetService.
MaxProviders == 3

Watcher == 0
Callers == 1..NumCallers
ShutdownProcs == {Watcher} \cup Callers
Waiters == 1..NumWaiters
Callbacks == 1..MaxCallbacks

\* --------------------------------------------------- directory documents
\* A document is the sequence of its providers (pki.Document.Providers); a
\* provider has a name and the map Kaetzchen from each capability it
\* advertises to the parameters of the service, of which the code reads the
\* endpoint.
serviceLoop == "loop"
Capabilities == {serviceLoop, "echo"}
endpointOf == [c \in Capabilities |-> IF c = serviceLoop THEN "+loop" ELSE "+echo"]

Provider(i, caps) ==
  [Name |-> ToString(i), Kaetzchen |-> [c \in caps |-> endpointOf[c]]]

Document(providers) == [Providers |-> providers]
NilDoc == [nil |-> TRUE]

DocValid == Document(<< Provider(1, {"loop"}), Provider(2, {"loop", "echo"}) >>)
DocInvalid == Document(<< Provider(1, {"loop"}), Provider(2, {"echo"}) >>)
Docs == {DocValid, DocInvalid}

\* Every document of up to MaxProviders providers, each advertising any
\* subset of the capabilities.
RECURSIVE ProvidersOfLen(_)
ProvidersOfLen(n) ==
  IF n = 0 THEN {<< >>}
  ELSE {Append(ps, Provider(n, caps)) :
          ps \in ProvidersOfLen(n - 1), caps \in SUBSET Capabilities}

AllDocs == {Document(ps) : ps \in UNION {ProvidersOfLen(n) : n \in 0..MaxProviders}}

\* The names GetService and FindServices are asked for; "panda" is one no
\* provider advertises.
ServiceNames == Capabilities \cup {"panda"}

\* isDocValid with the loop stopped after the first provider.
RECURSIVE isDocValidFirstOnly(_, _)
isDocValidFirstOnly(doc, i) ==
  IF i > Len(doc.Providers) \/ i > 1 THEN TRUE
  ELSE IF serviceLoop \notin DOMAIN doc.Providers[i].Kaetzchen THEN FALSE
  ELSE isDocValidFirstOnly(doc, i + 1)

\* isDocValid walks the providers in order and returns the error (FALSE here)
\* at the first one without the loop service, nil (TRUE) at the end.
RECURSIVE isDocValidFrom(_, _)
isDocValidFrom(doc, i) ==
  IF i > Len(doc.Providers) THEN TRUE
  ELSE IF serviceLoop \notin DOMAIN doc.Providers[i].Kaetzchen THEN FALSE
  ELSE isDocValidFrom(doc, i + 1)

isDocValid(doc) == isDocValidFrom(doc, 1)

\* FindServices: the providers in order; for each, the capabilities of its
\* Kaetzchen map, and for the one equal to the capability asked for (a map
\* holds a key once) a descriptor of the endpoint and the provider's name is
\* appended.
RECURSIVE FindServicesFrom(_, _, _)
FindServicesFrom(capability, doc, i) ==
  IF i > Len(doc.Providers) THEN << >>
  ELSE LET provider == doc.Providers[i]
           found == {cap \in DOMAIN provider.Kaetzchen : cap = capability}
       IN (IF found = {} THEN << >>
           ELSE << [Name |-> provider.Kaetzchen[capability],
                    Provider |-> provider.Name] >>)
          \o FindServicesFrom(capability, doc, i + 1)

FindServices(capability, doc) == FindServicesFrom(capability, doc, 1)

\* mrand.Intn(n) as it would be if it always drew 0.
IntnFirst(n) == {0}

\* mrand.Intn(n), n > 0: any of 0..n-1.
Intn(n) == 0..(n - 1)

\* GetService as it would be without the check of the length.
noneFoundNever(serviceDescriptors) == FALSE

\* GetService, line 209: len(serviceDescriptors) == 0.
noneFound(serviceDescriptors) == Len(serviceDescriptors) = 0

\* GetService: every result it can return for a document.  mrand.Intn
\* panics when its argument is not positive.
GetService(serviceName, doc) ==
  IF doc = NilDoc
    THEN {[err |-> "pki doc is nil"]}
    ELSE LET serviceDescriptors == FindServices(serviceName, doc)
         IN IF noneFound(serviceDescriptors)
              THEN {[err |-> "service not found"]}
              ELSE IF Len(serviceDescriptors) <= 0
                     THEN {[err |-> "panic"]}
                     ELSE {[err |-> "none", desc |-> serviceDescriptors[i + 1]] :
                             i \in Intn(Len(serviceDescriptors))}

NoCall == [fn |-> "none"]

\* The operations the callbacks put on opCh.
opConnStatusChanged == [type |-> "opConnStatusChanged", isConnected |-> TRUE]
opNewDocument(doc) == [type |-> "opNewDocument", doc |-> doc]
NoOp == [type |-> "none"]

VARIABLES
  now,          \* the clock: ticks since Start was called
  fatalErrCh,   \* Spray.fatalErrCh: [closed, closes, received]
  haltedCh,     \* Spray.haltedCh: [closed, closes]
  haltOnce,     \* Spray.haltOnce: "idle", "running" or "done"
  haltPc,       \* position of the one goroutine inside Spray.halt
  session,      \* Spray.session # nil
  shutPc,       \* position of the watcher and of each caller of Shutdown
  waitPc,       \* position of each caller of Wait
  startPc,      \* position of the caller of Start (session.New)
  timerDeadline,\* expiry of the time.After timer of the current select
  haltCh,       \* the session's Worker.HaltCh is closed
  hasPKIDoc,    \* Session.hasPKIDoc
  onlineAt,     \* Session.onlineAt (-1: zero value)
  cbPc,         \* position of each callback invocation
  cbOp,         \* the operation each callback invocation sends on opCh
  fieldWriters, \* the code places that have written a session-state field
  startErr,     \* the error Start returns ("none": nil)
  docValidated, \* a first document passed isDocValid in awaitFirstPKIDoc
  cryptoChan,   \* Session.cryptoChan: "nil" or "open"
  sendPc,       \* position of sendWorker
  cryptoPc,     \* position of cryptoWorker
  sessPc,       \* position of sessionWorker
  cfg,          \* [SendRate, SendBurst]
  tokens,       \* the limiter's token bucket
  constructed,  \* packets composed
  tokenHeld,    \* onSendPacket took a token for the packet it holds
  sends,        \* SendSphinxPacket calls
  clockSkew,    \* connStatusChange's skew, while it runs (0 otherwise)
  currentDocument, \* minclient.CurrentDocument(): a document or NilDoc
  call          \* the last call of isDocValid, FindServices or GetService

vars == << now, fatalErrCh, haltedCh, haltOnce, haltPc, session, shutPc, waitPc,
           startPc, timerDeadline, haltCh, hasPKIDoc, onlineAt,
           cbPc, cbOp, fieldWriters, startErr, docValidated, cryptoChan, sendPc, cryptoPc,
           sessPc, cfg, tokens, constructed, tokenHeld, sends,
           clockSkew, currentDocument, call >>

sprayVars == << fatalErrCh, haltedCh, haltOnce, haltPc, session, shutPc >>
startVars == << startPc, startErr, timerDeadline, docValidated >>
cbVars == << cbPc, cbOp >>
fieldVars == << hasPKIDoc, onlineAt, fieldWriters >>
workerVars == << cryptoChan, sendPc, cryptoPc, sessPc >>
pipeVars == << tokens, constructed, tokenHeld, sends >>
skewVars == << clockSkew >>
resolverVars == << currentDocument, call >>

\* ------------------------------------------------------------------- Init
\* spray.New: both channels open and unbuffered, the Once unused, no
\* session, the fatal error watcher started.  No session exists yet.
InitBase ==
  /\ now = 0
  /\ fatalErrCh = [closed |-> FALSE, closes |-> 0, received |-> 0]
  /\ haltedCh = [closed |-> FALSE, closes |-> 0]
  /\ haltOnce = "idle"
  /\ haltPc = "none"
  /\ session = FALSE
  /\ shutPc = [p \in ShutdownProcs |-> IF p = Watcher THEN "recv" ELSE "idle"]
  /\ waitPc = [w \in Waiters |-> "idle"]
  /\ startPc = "idle"
  /\ timerDeadline = 0
  /\ haltCh = FALSE
  /\ hasPKIDoc = FALSE
  /\ onlineAt = -1
  /\ cbPc = [c \in Callbacks |-> "idle"]
  /\ cbOp = [c \in Callbacks |-> NoOp]
  /\ fieldWriters = {}
  /\ startErr = "none"
  /\ docValidated = FALSE
  /\ cryptoChan = "nil"
  /\ sendPc = "notStarted"
  /\ cryptoPc = "notStarted"
  /\ sessPc = "notStarted"
  /\ tokens = 0
  /\ constructed = 0
  /\ tokenHeld = FALSE
  /\ sends = 0
  /\ clockSkew = 0

\* Nobody calls GetService while the session is set up and torn down.
Init ==
  /\ InitBase
  /\ cfg = [SendRate |-> 1, SendBurst |-> 1]
  /\ currentDocument = NilDoc
  /\ call = NoCall

\* ---------------------------------------------------------------- helpers
\* A goroutine panicked (send on a closed channel, close of a closed
\* channel): the process is gone.
Crashed ==
  \/ startPc = "panic"
  \/ cryptoPc = "panic"
  \/ haltPc = "panic"

\* The WaitGroup of the session's Worker is at zero: every goroutine started
\* with s.Go has returned.
WorkersExited ==
  /\ sendPc \in {"notStarted", "exited"}
  /\ cryptoPc \in {"notStarted", "exited"}
  /\ sessPc \in {"notStarted", "exited"}

\* minclient.New has run: the transport invokes the callbacks from now on
\* (nothing in session ever shuts the minclient down).
TransportUp == startPc # "idle" /\ startErr # "init"

\* ------------------------------------------------------------------ clock
\* Start, lines 86-87: the context of Start expires SessionDialTimeout after
\* the call.
ctxDeadline == SessionDialTimeout

\* Somebody reads the clock: awaitFirstPKIDoc its timers, the limiter and
\* connStatusChange the time.
ClockRead == startPc = "await" \/ cryptoChan = "open"

\* Time passes.  A select whose timer or context deadline has fired is taken
\* before the clock moves on.  The limiter gains SendRate tokens per tick, up
\* to SendBurst.
Min(a, b) == IF a < b THEN a ELSE b

AwaitDue == startPc = "await" /\ (now >= ctxDeadline \/ now >= timerDeadline)

Refill(t) == Min(cfg.SendBurst, t + cfg.SendRate)

Tick ==
  /\ now < MaxTime
  /\ ClockRead
  /\ ~AwaitDue
  /\ now' = now + 1
  /\ tokens' = IF cryptoChan = "open" THEN Refill(tokens) ELSE tokens
  /\ UNCHANGED << sprayVars, waitPc, startVars, haltCh, fieldVars, cbVars,
                  workerVars, cfg, resolverVars, skewVars, constructed, tokenHeld, sends >>

\* ------------------------------------------------------- Spray (spray.go)
\* haltOnce.Do(f): the first caller runs f, a caller arriving while f runs
\* blocks until it is done, a caller arriving afterwards returns at once.
OnceDo(p) ==
  CASE haltOnce = "idle" ->
         /\ haltOnce' = "running"
         /\ haltPc' = "begin"
         /\ shutPc' = [shutPc EXCEPT ![p] = "running"]
    [] haltOnce = "running" ->
         /\ shutPc' = [shutPc EXCEPT ![p] = "blocked"]
         /\ UNCHANGED << haltOnce, haltPc >>
    [] OTHER ->
         /\ shutPc' = [shutPc EXCEPT ![p] = "returned"]
         /\ UNCHANGED << haltOnce, haltPc >>

\* Shutdown, called by an external caller or by the watcher after it
\* received an error.  The external callers are numbered in the order of
\* their calls.
Shutdown(p) ==
  /\ shutPc[p] = "idle"
  /\ \A q \in Callers : (p \in Callers /\ q < p) => shutPc[q] # "idle"
  /\ OnceDo(p)
  /\ UNCHANGED << now, fatalErrCh, haltedCh, session, waitPc, startVars, haltCh,
                  fieldVars, cbVars, workerVars, cfg, resolverVars, skewVars, pipeVars >>

\* A caller blocked in haltOnce.Do returns once halt has run.
ShutdownUnblock(p) ==
  /\ shutPc[p] = "blocked"
  /\ haltOnce = "done"
  /\ shutPc' = [shutPc EXCEPT ![p] = "returned"]
  /\ UNCHANGED << now, fatalErrCh, haltedCh, haltOnce, haltPc, session, waitPc,
                  startVars, haltCh, fieldVars, cbVars, workerVars, cfg, resolverVars, skewVars,
                  pipeVars >>

\* halt, lines 76-78: if c.session != nil, c.session.Halt() closes the
\* session's halt channel and then waits for the session's goroutines.
haltSession ==
  /\ haltPc = "begin"
  /\ IF session
       THEN haltCh' = TRUE /\ haltPc' = "wait"
       ELSE haltCh' = haltCh /\ haltPc' = "closeFatal"
  /\ UNCHANGED << now, fatalErrCh, haltedCh, haltOnce, session, shutPc, waitPc,
                  startVars, fieldVars, cbVars, workerVars, cfg, resolverVars, skewVars, pipeVars >>

\* Worker.Halt returns when the WaitGroup reaches zero.
haltWait ==
  /\ haltPc = "wait"
  /\ WorkersExited
  /\ haltPc' = "closeFatal"
  /\ UNCHANGED << now, fatalErrCh, haltedCh, haltOnce, session, shutPc, waitPc,
                  startVars, haltCh, fieldVars, cbVars, workerVars, cfg, resolverVars, skewVars,
                  pipeVars >>

\* halt, line 79: close(c.fatalErrCh); closing a closed channel panics.
haltCloseFatal ==
  /\ haltPc = "closeFatal"
  /\ fatalErrCh' = [fatalErrCh EXCEPT !.closed = TRUE, !.closes = @ + 1]
  /\ haltPc' = IF fatalErrCh.closed THEN "panic" ELSE "closeHalted"
  /\ UNCHANGED << now, haltedCh, haltOnce, session, shutPc, waitPc, startVars,
                  haltCh, fieldVars, cbVars, workerVars, cfg, resolverVars, skewVars, pipeVars >>

\* halt, line 80: close(c.haltedCh); halt returns, the Once is done and the
\* caller that ran it returns from Shutdown.
haltCloseHalted ==
  /\ haltPc = "closeHalted"
  /\ haltedCh' = [closed |-> TRUE, closes |-> haltedCh.closes + 1]
  /\ IF haltedCh.closed
       THEN haltPc' = "panic" /\ UNCHANGED << haltOnce, shutPc >>
       ELSE /\ haltPc' = "done"
            /\ haltOnce' = "done"
            /\ shutPc' = [p \in ShutdownProcs |->
                            IF shutPc[p] = "running" THEN "returned" ELSE shutPc[p]]
  /\ UNCHANGED << now, fatalErrCh, session, waitPc, startVars, haltCh,
                  fieldVars, cbVars, workerVars, cfg, resolverVars, skewVars, pipeVars >>

\* The fatal error watcher, lines 118-125: the channel is closed, the
\* receive yields !ok and the goroutine returns.
watcherClosed ==
  /\ shutPc[Watcher] = "recv"
  /\ fatalErrCh.closed
  /\ shutPc' = [shutPc EXCEPT ![Watcher] = "exit"]
  /\ UNCHANGED << now, fatalErrCh, haltedCh, haltOnce, haltPc, session, waitPc,
                  startVars, haltCh, fieldVars, cbVars, workerVars, cfg, resolverVars, skewVars,
                  pipeVars >>

\* Wait: <-c.haltedCh.
WaitCall(w) ==
  /\ waitPc[w] = "idle"
  /\ waitPc' = [waitPc EXCEPT ![w] = "blocked"]
  /\ UNCHANGED << now, sprayVars, startVars, haltCh, fieldVars, cbVars,
                  workerVars, cfg, resolverVars, skewVars, pipeVars >>

WaitReturn(w) ==
  /\ waitPc[w] = "blocked"
  /\ haltedCh.closed
  /\ waitPc' = [waitPc EXCEPT ![w] = "returned"]
  /\ UNCHANGED << now, sprayVars, startVars, haltCh, fieldVars, cbVars,
                  workerVars, cfg, resolverVars, skewVars, pipeVars >>

\* ------------------------------------------- session (session/session.go)
\* New as it would be with the error check after awaitFirstPKIDoc left out.
NewAfterAwaitIgnoresErr(err) == "go"

\* New, lines 153-156: an error of awaitFirstPKIDoc is returned to the
\* caller of Start; without one New goes on to start the worker.
NewAfterAwait(err) == IF err # "none" THEN "returned" ELSE "go"

\* Start calls session.New, which creates the PKI clients, loads the keys
\* and brings up the minclient (each may fail and return early), then enters
\* awaitFirstPKIDoc under the context Start created.
Start ==
  /\ startPc = "idle"
  /\ \E ok \in BOOLEAN :
       IF ok
         THEN /\ startPc' = "await"
              /\ startErr' = "none"
              /\ timerDeadline' = now + InitialMaxPKIRetrievalDelay
         ELSE /\ startPc' = "returned"
              /\ startErr' = "init"
              /\ timerDeadline' = timerDeadline
  /\ UNCHANGED << now, sprayVars, waitPc, docValidated, haltCh, fieldVars,
                  cbVars, workerVars, cfg, resolverVars, skewVars, pipeVars >>

\* The cases of the select of awaitFirstPKIDoc that are ready.
awaitReady ==
  (IF now >= ctxDeadline THEN {[kind |-> "ctx", cb |-> 0]} ELSE {}) \cup
  (IF haltCh THEN {[kind |-> "halt", cb |-> 0]} ELSE {}) \cup
  (IF now >= timerDeadline THEN {[kind |-> "timer", cb |-> 0]} ELSE {}) \cup
  {[kind |-> "op", cb |-> c] : c \in {x \in Callbacks : cbPc[x] = "sending"}}

\* awaitFirstPKIDoc as it would be with the timer case returning no error.
awaitErrOfTimerNil(kind) ==
  CASE kind = "ctx" -> "ctx"
    [] kind = "halt" -> "halt"
    [] kind = "timer" -> "none"

\* The error of each case that returns without an operation.
awaitErrOf(kind) ==
  CASE kind = "ctx" -> "ctx"
    [] kind = "halt" -> "halt"
    [] kind = "timer" -> "timeout"

\* awaitFirstPKIDoc as it would be if it went on waiting after a document
\* that fails the validation.
isNewDocumentIfValid(op) == op.type = "opNewDocument" /\ isDocValid(op.doc)

\* awaitFirstPKIDoc, lines 175-176: the case opNewDocument of the type
\* switch; every other operation takes the default case.
isNewDocument(op) == op.type = "opNewDocument"

\* One iteration of the loop of awaitFirstPKIDoc: the select takes one ready
\* case; a received opNewDocument is validated, any other operation makes
\* the loop continue, which arms a new time.After timer.  The timer is
\* dropped (0) when the function returns.
awaitFirstPKIDoc ==
  /\ startPc = "await"
  /\ \E b \in awaitReady :
       IF b.kind # "op"
         THEN /\ startErr' = awaitErrOf(b.kind)
              /\ startPc' = NewAfterAwait(awaitErrOf(b.kind))
              /\ timerDeadline' = 0
              /\ UNCHANGED << cbPc, cbOp, docValidated >>
         ELSE /\ cbPc' = [cbPc EXCEPT ![b.cb] = "returned"]
              /\ cbOp' = [cbOp EXCEPT ![b.cb] = NoOp]
              /\ IF isNewDocument(cbOp[b.cb])
                   THEN IF isDocValid(cbOp[b.cb].doc)
                          THEN /\ startPc' = NewAfterAwait("none")
                               /\ docValidated' = TRUE
                               /\ timerDeadline' = 0
                               /\ startErr' = startErr
                          ELSE /\ startPc' = "sendFatal"
                               /\ startErr' = "invalid"
                               /\ timerDeadline' = 0
                               /\ docValidated' = docValidated
                   ELSE /\ timerDeadline' = now + InitialMaxPKIRetrievalDelay
                        /\ UNCHANGED << startPc, startErr, docValidated >>
  /\ UNCHANGED << now, sprayVars, waitPc, haltCh, fieldVars, workerVars, cfg, resolverVars, skewVars,
                  pipeVars >>

\* awaitFirstPKIDoc, line 182: s.fatalErrCh <- err.  The send panics on a
\* closed channel and otherwise completes when the watcher receives, which
\* then goes on to call Shutdown.
awaitSendFatal ==
  /\ startPc = "sendFatal"
  /\ IF fatalErrCh.closed
       THEN /\ startPc' = "panic"
            /\ UNCHANGED << fatalErrCh, shutPc >>
       ELSE /\ shutPc[Watcher] = "recv"
            /\ fatalErrCh' = [fatalErrCh EXCEPT !.received = @ + 1]
            /\ shutPc' = [shutPc EXCEPT ![Watcher] = "idle"]
            /\ startPc' = NewAfterAwait(startErr)
  /\ UNCHANGED << now, haltedCh, haltOnce, haltPc, session, waitPc, startErr,
                  timerDeadline, docValidated, haltCh, fieldVars,
                  cbVars, workerVars, cfg, resolverVars, skewVars, pipeVars >>

\* New, line 158: s.Go(s.sendWorker).
NewGo ==
  /\ startPc = "go"
  /\ sendPc' = "select"
  /\ startPc' = "assign"
  /\ UNCHANGED << now, sprayVars, waitPc, startErr, timerDeadline,
                  docValidated, haltCh, fieldVars, cbVars, cryptoChan, cryptoPc,
                  sessPc, cfg, resolverVars, skewVars, pipeVars >>

\* Start, lines 89-90: New returned the session, c.session is assigned and
\* Start returns it.
StartAssign ==
  /\ startPc = "assign"
  /\ session' = TRUE
  /\ startPc' = "returned"
  /\ UNCHANGED << now, fatalErrCh, haltedCh, haltOnce, haltPc, shutPc, waitPc,
                  startErr, timerDeadline, docValidated, haltCh,
                  fieldVars, cbVars, workerVars, cfg, resolverVars, skewVars, pipeVars >>

\* Callback invocations are numbered in the order the transport makes them.
NextCallback(c) ==
  /\ cbPc[c] = "idle"
  /\ \A x \in Callbacks : x < c => cbPc[x] # "idle"
  /\ TransportUp

\* onConnection(err): with err = nil the callback sends opConnStatusChanged
\* on the unbuffered opCh and stays in the send until a receiver takes it;
\* with an error it returns at once.
onConnection(c) ==
  /\ NextCallback(c)
  /\ \E isNil \in BOOLEAN :
       IF isNil
         THEN /\ cbPc' = [cbPc EXCEPT ![c] = "sending"]
              /\ cbOp' = [cbOp EXCEPT ![c] = opConnStatusChanged]
         ELSE /\ cbPc' = [cbPc EXCEPT ![c] = "returned"]
              /\ cbOp' = cbOp
  /\ UNCHANGED << now, sprayVars, waitPc, startVars, haltCh, fieldVars,
                  workerVars, cfg, resolverVars, skewVars, pipeVars >>

\* onDocument(doc): sets s.hasPKIDoc and sends opNewDocument on opCh.
onDocument(c) ==
  /\ NextCallback(c)
  /\ \E doc \in Docs :
       /\ cbPc' = [cbPc EXCEPT ![c] = "sending"]
       /\ cbOp' = [cbOp EXCEPT ![c] = opNewDocument(doc)]
  /\ hasPKIDoc' = TRUE
  /\ fieldWriters' = fieldWriters \cup {"onDocument"}
  /\ UNCHANGED << now, sprayVars, waitPc, startVars, haltCh, onlineAt,
                  workerVars, cfg, resolverVars, skewVars, pipeVars >>

\* ------------------------------------------- workers (session/workers.go)
\* The cases of the select of sendWorker that are ready: a receive from
\* cryptoChan needs a sender in its send (a nil channel never has one).
sendReady ==
  (IF haltCh THEN {"halt"} ELSE {}) \cup
  (IF cryptoChan = "open" /\ cryptoPc = "handoff" THEN {"packet"} ELSE {})

\* sendWorker: one select.  A received packet goes to onSendPacket; the halt
\* case returns.
sendWorker ==
  /\ sendPc = "select"
  /\ \E b \in sendReady :
       IF b = "halt"
         THEN /\ sendPc' = "exited"
              /\ cryptoPc' = cryptoPc
         ELSE /\ sendPc' = "limiterWait"
              /\ cryptoPc' = "compose"
  /\ UNCHANGED << now, sprayVars, waitPc, startVars, haltCh, fieldVars, cbVars,
                  cryptoChan, sessPc, cfg, resolverVars, skewVars, pipeVars >>

\* sessionWorker: the cases of its select that are ready.
sessionReady ==
  (IF haltCh THEN {[kind |-> "halt", cb |-> 0]} ELSE {}) \cup
  {[kind |-> "op", cb |-> c] : c \in {x \in Callbacks : cbPc[x] = "sending"}}

\* The clock skews minclient.ClockSkew() reports, in seconds, on both sides
\* of the threshold and of zero.
skewWarnDelta == 120
Skews == {-(skewWarnDelta + 1), -skewWarnDelta, skewWarnDelta - 1,
          skewWarnDelta, skewWarnDelta + 1}

\* connStatusChange with the negation of a negative skew left out.
absSkewOfSigned(skew) == skew

\* connStatusChange, lines 54-58: absSkew.
absSkewOf(skew) == IF skew < 0 THEN -skew ELSE skew

\* connStatusChange, lines 59-65: the branch taken on the skew read, the
\* warning or the debug line.
skewBranch(skew) ==
  IF absSkewOf(skew) > skewWarnDelta THEN "logWarning" ELSE "logDebug"

\* connStatusChange, up to the branch on the skew: a change to connected
\* records the time in s.onlineAt and reads the clock skew.
connStatusChange(op) ==
  IF op.isConnected
    THEN \E skew \in Skews :
           /\ onlineAt' = now
           /\ fieldWriters' = fieldWriters \cup {"sessionWorker"}
           /\ clockSkew' = skew
           /\ sessPc' = skewBranch(skew)
    ELSE UNCHANGED << onlineAt, fieldWriters, skewVars, sessPc >>

\* sessionWorker: one iteration.  The halt case returns; a received
\* opConnStatusChanged goes to connStatusChange; opIsEmpty, opNewDocument and
\* anything else change nothing.
sessionWorker ==
  /\ sessPc = "select"
  /\ \E b \in sessionReady :
       IF b.kind = "halt"
         THEN /\ sessPc' = "exited"
              /\ UNCHANGED << cbPc, cbOp, onlineAt, fieldWriters, skewVars >>
         ELSE /\ cbPc' = [cbPc EXCEPT ![b.cb] = "returned"]
              /\ cbOp' = [cbOp EXCEPT ![b.cb] = NoOp]
              /\ IF cbOp[b.cb].type = "opConnStatusChanged"
                   THEN connStatusChange(cbOp[b.cb])
                   ELSE UNCHANGED << onlineAt, fieldWriters, skewVars, sessPc >>
  /\ UNCHANGED << now, sprayVars, waitPc, startVars, haltCh, hasPKIDoc,
                  cryptoChan, sendPc, cryptoPc, cfg, resolverVars, pipeVars >>

\* connStatusChange, lines 62 and 64: the line is logged, the function
\* returns and sessionWorker is back at its select.
connStatusLog ==
  /\ sessPc \in {"logWarning", "logDebug"}
  /\ sessPc' = "select"
  /\ clockSkew' = 0
  /\ UNCHANGED << now, sprayVars, waitPc, startVars, haltCh, fieldVars, cbVars,
                  cryptoChan, sendPc, cryptoPc, cfg, resolverVars, pipeVars >>

\* cryptoWorker, lines 111-115: ComposeSphinxPacket returns a packet, which
\* the worker goes on to hand off, or an error, which it goes on to send on
\* fatalErrCh.
cryptoCompose ==
  /\ cryptoPc = "compose"
  /\ \E ok \in BOOLEAN :
       IF ok
         THEN /\ constructed < MaxPackets
              /\ constructed' = constructed + 1
              /\ cryptoPc' = "handoff"
         ELSE /\ constructed' = constructed
              /\ cryptoPc' = "sendFatal"
  /\ UNCHANGED << now, sprayVars, waitPc, startVars, haltCh, fieldVars, cbVars,
                  cryptoChan, sendPc, sessPc, cfg, resolverVars, skewVars, tokens, tokenHeld, sends >>

\* cryptoWorker, line 113: s.fatalErrCh <- err, then return.  The send
\* panics on a closed channel and otherwise completes when the watcher
\* receives.
cryptoSendFatal ==
  /\ cryptoPc = "sendFatal"
  /\ IF fatalErrCh.closed
       THEN /\ cryptoPc' = "panic"
            /\ UNCHANGED << fatalErrCh, shutPc >>
       ELSE /\ shutPc[Watcher] = "recv"
            /\ fatalErrCh' = [fatalErrCh EXCEPT !.received = @ + 1]
            /\ shutPc' = [shutPc EXCEPT ![Watcher] = "idle"]
            /\ cryptoPc' = "exited"
  /\ UNCHANGED << now, haltedCh, haltOnce, haltPc, session, waitPc, startVars,
                  haltCh, fieldVars, cbVars, cryptoChan, sendPc, sessPc, cfg, resolverVars, skewVars,
                  pipeVars >>

\* cryptoWorker, lines 116-121: the halt case of the select around the
\* hand-off (the send case completes in sendWorker's receive).
cryptoHalt ==
  /\ cryptoPc = "handoff"
  /\ haltCh
  /\ cryptoPc' = "exited"
  /\ UNCHANGED << now, sprayVars, waitPc, startVars, haltCh, fieldVars, cbVars,
                  cryptoChan, sendPc, sessPc, cfg, resolverVars, skewVars, pipeVars >>

\* s.limiter.Wait(ctx) with ctx = context.Background(): a token bucket of
\* cfg.SendRate tokens per tick and capacity cfg.SendBurst, full when made.
\* Wait fails at once when one token exceeds the burst, and otherwise blocks
\* until a token is there and takes it.  The context is never cancelled.
limiterFails == cfg.SendBurst < 1
limiterBlocks == ~limiterFails /\ tokens < 1

\* onSendPacket, line 127: the result of Wait is discarded.
onSendPacketWait ==
  /\ sendPc = "limiterWait"
  /\ ~limiterBlocks
  /\ IF limiterFails
       THEN UNCHANGED << tokens, tokenHeld >>
       ELSE tokens' = tokens - 1 /\ tokenHeld' = TRUE
  /\ sendPc' = "send"
  /\ UNCHANGED << now, sprayVars, waitPc, startVars, haltCh, fieldVars, cbVars,
                  cryptoChan, cryptoPc, sessPc, cfg, resolverVars, skewVars, constructed, sends >>

\* onSendPacket after a send as it would be if it tried a failed send
\* again.
afterSendRetries(err) == IF err THEN "send" ELSE "select"

\* onSendPacket after a send as it would be if a failed send ended the
\* egress worker.
afterSendStops(err) == IF err THEN "exited" ELSE "select"

\* onSendPacket, lines 129-131: with an error it goes on to log the warning,
\* without one it returns and sendWorker is back at its select.
afterSend(err) == IF err THEN "sendFailed" ELSE "select"

\* onSendPacket, line 128: the one SendSphinxPacket, which may fail.
onSendPacketSend ==
  /\ sendPc = "send"
  /\ \E err \in BOOLEAN : sendPc' = afterSend(err)
  /\ sends' = sends + 1
  /\ tokenHeld' = FALSE
  /\ UNCHANGED << now, sprayVars, waitPc, startVars, haltCh, fieldVars, cbVars,
                  cryptoChan, cryptoPc, sessPc, cfg, resolverVars, skewVars,
                  tokens, constructed >>

\* onSendPacket, line 130: the failure is logged, the packet is dropped and
\* sendWorker is back at its select.
onSendPacketWarn ==
  /\ sendPc = "sendFailed"
  /\ sendPc' = "select"
  /\ UNCHANGED << now, sprayVars, waitPc, startVars, haltCh, fieldVars, cbVars,
                  cryptoChan, cryptoPc, sessPc, cfg, resolverVars, skewVars,
                  pipeVars >>

\* READY as the design describes it: New starts the control-plane
\* dispatcher, the construction worker and the egress worker, with the
\* packet channel and the limiter made.
NewGoPipeline ==
  /\ startPc = "go"
  /\ sendPc' = "select"
  /\ sessPc' = "select"
  /\ cryptoPc' = "compose"
  /\ cryptoChan' = "open"
  /\ tokens' = cfg.SendBurst
  /\ startPc' = "assign"
  /\ UNCHANGED << now, sprayVars, waitPc, startErr, timerDeadline,
                  docValidated, haltCh, fieldVars, cbVars, cfg, resolverVars, skewVars, constructed,
                  tokenHeld, sends >>

\* ------------------------------------------------------------ the program
Next ==
  \/ ~Crashed /\ Tick
  \/ ~Crashed /\ \E p \in ShutdownProcs : Shutdown(p)
  \/ ~Crashed /\ \E p \in ShutdownProcs : ShutdownUnblock(p)
  \/ ~Crashed /\ haltSession
  \/ ~Crashed /\ haltWait
  \/ ~Crashed /\ haltCloseFatal
  \/ ~Crashed /\ haltCloseHalted
  \/ ~Crashed /\ watcherClosed
  \/ ~Crashed /\ \E w \in Waiters : WaitCall(w)
  \/ ~Crashed /\ \E w \in Waiters : WaitReturn(w)
  \/ ~Crashed /\ Start
  \/ ~Crashed /\ awaitFirstPKIDoc
  \/ ~Crashed /\ awaitSendFatal
  \/ ~Crashed /\ NewGo
  \/ ~Crashed /\ StartAssign
  \/ ~Crashed /\ \E c \in Callbacks : onConnection(c)
  \/ ~Crashed /\ \E c \in Callbacks : onDocument(c)
  \/ ~Crashed /\ sendWorker

Spec == Init /\ [][Next]_vars

\* The program with the workers started at READY as the design describes,
\* for every configured rate and burst.
InitPipeline ==
  /\ InitBase
  /\ cfg \in [SendRate : 1..MaxRate, SendBurst : 0..MaxBurst]
  /\ currentDocument = NilDoc
  /\ call = NoCall

NextPipeline ==
  \/ ~Crashed /\ Tick
  \/ ~Crashed /\ \E p \in ShutdownProcs : Shutdown(p)
  \/ ~Crashed /\ \E p \in ShutdownProcs : ShutdownUnblock(p)
  \/ ~Crashed /\ haltSession
  \/ ~Crashed /\ haltWait
  \/ ~Crashed /\ haltCloseFatal
  \/ ~Crashed /\ haltCloseHalted
  \/ ~Crashed /\ watcherClosed
  \/ ~Crashed /\ Start
  \/ ~Crashed /\ awaitFirstPKIDoc
  \/ ~Crashed /\ awaitSendFatal
  \/ ~Crashed /\ NewGoPipeline
  \/ ~Crashed /\ StartAssign
  \/ ~Crashed /\ \E c \in Callbacks : onConnection(c)
  \/ ~Crashed /\ \E c \in Callbacks : onDocument(c)
  \/ ~Crashed /\ sendWorker
  \/ ~Crashed /\ sessionWorker
  \/ ~Crashed /\ connStatusLog
  \/ ~Crashed /\ cryptoCompose
  \/ ~Crashed /\ cryptoSendFatal
  \/ ~Crashed /\ cryptoHalt
  \/ ~Crashed /\ onSendPacketWait
  \/ ~Crashed /\ onSendPacketSend
  \/ ~Crashed /\ onSendPacketWarn

SpecPipeline == InitPipeline /\ [][NextPipeline]_vars

\* ------------------------------------------- the validator and the resolver
\* isDocValid, FindServices and GetService applied to every document of up
\* to MaxProviders providers; for GetService the transport may also hold no
\* document.
sessionVars == << now, sprayVars, waitPc, startVars, haltCh, fieldVars, cbVars,
                  workerVars, cfg, pipeVars, skewVars >>

InitResolver ==
  /\ InitBase
  /\ cfg = [SendRate |-> 1, SendBurst |-> 1]
  /\ currentDocument \in AllDocs \cup {NilDoc}
  /\ call = NoCall

CallIsDocValid ==
  /\ currentDocument # NilDoc
  /\ call' = [fn |-> "isDocValid", ok |-> isDocValid(currentDocument)]
  /\ UNCHANGED << sessionVars, currentDocument >>

CallFindServices(capability) ==
  /\ currentDocument # NilDoc
  /\ call' = [fn |-> "FindServices", capability |-> capability,
              services |-> FindServices(capability, currentDocument)]
  /\ UNCHANGED << sessionVars, currentDocument >>

CallGetService(serviceName) ==
  /\ \E r \in GetService(serviceName, currentDocument) :
       call' = [fn |-> "GetService", serviceName |-> serviceName, result |-> r]
  /\ UNCHANGED << sessionVars, currentDocument >>

NextResolver ==
  \/ CallIsDocValid
  \/ \E capability \in ServiceNames : CallFindServices(capability)
  \/ \E serviceName \in ServiceNames : CallGetService(serviceName)

SpecResolver == InitResolver /\ [][NextResolver]_vars

\* ----------------------------------------------------------------- claims
\* A packet is in the hands of the egress worker or has gone to the
\* transport.
PacketAtEgress == sendPc \in {"limiterWait", "send"} \/ sends > 0

\* Start has reached READY: awaitFirstPKIDoc returned a document that passed
\* isDocValid and no error.
ReachedReady ==
  /\ docValidated
  /\ startErr = "none"
  /\ startPc \in {"go", "assign", "returned"}

C2_OneTeardownWaitReturns ==
  /\ fatalErrCh.closes <= 1
  /\ haltedCh.closes <= 1
  /\ haltPc # "panic"
  /\ \A w \in Waiters :
       (waitPc[w] = "blocked" /\ haltOnce # "idle" /\ ~haltedCh.closed)
         => ~Crashed

\* No worker of the session has ever been started.
NoWorkerStarted ==
  /\ sendPc = "notStarted"
  /\ cryptoPc = "notStarted"
  /\ sessPc = "notStarted"

\* The select of awaitFirstPKIDoc has only its startup timer ready: no
\* operation is offered on opCh, the context has not expired, no halt.
OnlyTimerDue ==
  /\ startPc = "await"
  /\ now >= timerDeadline
  /\ now < ctxDeadline
  /\ ~haltCh
  /\ \A c \in Callbacks : cbPc[c] # "sending"

C4_InvalidDocReturnsError ==
  startErr = "invalid" =>
    /\ startPc \in {"sendFatal", "returned"}
    /\ NoWorkerStarted
    /\ startPc = "returned" => fatalErrCh.received = 1

\* C5: when Start has returned the session (READY), the dispatcher loop,
\* the construction worker and the egress worker have all been started.
C5_ReadyStartsAllWorkers ==
  (startPc = "returned" /\ startErr = "none") =>
    /\ sessPc # "notStarted"
    /\ cryptoPc # "notStarted"
    /\ sendPc # "notStarted"

EgressStep ==
  sendWorker \/ onSendPacketWait \/ onSendPacketSend \/ onSendPacketWarn

C8_HaltedMeansWorkersGone == haltedCh.closed => WorkersExited

\* A consumer of the operation channel is alive: awaitFirstPKIDoc during
\* startup, the dispatcher loop afterwards.
OpChConsumerAlive ==
  startPc = "await" \/ sessPc \in {"select", "logWarning", "logDebug"}

\* C9: no callback invocation is held in its send on the operation channel
\* when nothing is receiving from the channel: the callbacks return in every
\* session state.
C9_CallbacksNeverBlock ==
  \A c \in Callbacks : cbPc[c] = "sending" => OpChConsumerAlive

C11_ValidIffEveryProviderHasLoop ==
  call.fn = "isDocValid" =>
    (call.ok <=> \A i \in DOMAIN currentDocument.Providers :
                   serviceLoop \in DOMAIN currentDocument.Providers[i].Kaetzchen)

\* A document of MaxProviders providers of which only the last lacks the
\* capability was rejected.
C11_Witness ==
  /\ call.fn = "isDocValid"
  /\ ~call.ok
  /\ Len(currentDocument.Providers) = MaxProviders
  /\ \A i \in DOMAIN currentDocument.Providers :
       (serviceLoop \in DOMAIN currentDocument.Providers[i].Kaetzchen)
         <=> i < MaxProviders

\* Some provider of the document advertises the capability.
Advertised(doc, capability) ==
  \E i \in DOMAIN doc.Providers : capability \in DOMAIN doc.Providers[i].Kaetzchen

\* C12: FindServices asked for a capability no provider of the document
\* advertises returns the empty sequence; GetService never panics, and when
\* nothing matches or the transport holds no document it returns an error
\* and no descriptor.
C12_NoMatchIsAnError ==
  /\ (call.fn = "FindServices" /\ ~Advertised(currentDocument, call.capability))
       => call.services = << >>
  /\ call.fn = "GetService" =>
       /\ call.result.err # "panic"
       /\ (currentDocument = NilDoc
             \/ ~Advertised(currentDocument, call.serviceName))
            => (call.result.err # "none" /\ "desc" \notin DOMAIN call.result)

\* GetService was asked, of a document with providers, for a service none of
\* them advertises and returned its error.
C12_Witness ==
  /\ call.fn = "GetService"
  /\ currentDocument # NilDoc
  /\ Len(currentDocument.Providers) >= 2
  /\ ~Advertised(currentDocument, call.serviceName)
  /\ call.result.err = "service not found"

\* The descriptors of the providers of the document that advertise the
\* capability.
Matching(doc, capability) ==
  {[Name |-> doc.Providers[i].Kaetzchen[capability],
    Provider |-> doc.Providers[i].Name] :
     i \in {j \in DOMAIN doc.Providers :
              capability \in DOMAIN doc.Providers[j].Kaetzchen}}

\* C13: a descriptor GetService returns is the endpoint and name of a
\* provider of the document that advertises the service asked for; and for a
\* document with two or more such providers, each of their descriptors is a
\* result the next call can return.
C13_SelectsAmongMatches ==
  /\ (call.fn = "GetService" /\ call.result.err = "none")
       => call.result.desc \in Matching(currentDocument, call.serviceName)
  /\ \A serviceName \in ServiceNames :
       (currentDocument # NilDoc
          /\ Cardinality(Matching(currentDocument, serviceName)) >= 2)
         => \A d \in Matching(currentDocument, serviceName) :
              ENABLED (/\ CallGetService(serviceName)
                       /\ call'.result = [err |-> "none", desc |-> d])

\* GetService returned the last of several matching descriptors.
C13_Witness ==
  /\ call.fn = "GetService"
  /\ call.result.err = "none"
  /\ Cardinality(Matching(currentDocument, call.serviceName)) >= 2
  /\ call.result.desc.Provider = ToString(MaxProviders)

\* The dispatcher takes an opConnStatusChanged operation off the operation
\* channel in this step.
ConnectedProcessed ==
  /\ sessPc = "select"
  /\ \E c \in Callbacks :
       /\ cbPc[c] = "sending"
       /\ cbOp[c] = opConnStatusChanged
       /\ cbPc'[c] = "returned"

C15_HaltAbortsStart ==
  [][/\ (startPc = "await" /\ haltPc = "begin" /\ haltPc' # "begin") => haltCh'
     /\ (haltCh /\ startPc = "await" /\ startPc' # "await") =>
          /\ startErr' # "none"
          /\ startPc' \in {"returned", "sendFatal"}
          /\ NoWorkerStarted']_vars

\* C16: Start is not in its wait for the first document later than the
\* startup deadline after it entered it (it enters it at time 0), however
\* many operations arrive.
C16_WaitBoundedByOneDeadline ==
  startPc = "await" => now <= InitialMaxPKIRetrievalDelay

C18_OnlyDispatcherWritesFields == fieldWriters \subseteq {"sessionWorker"}

\* C19: in the step that closes the fatal-error channel no worker of the
\* session is running (the session was stopped first), and the
\* halted-notification channel is closed only with the fatal-error channel
\* closed.
C19_TeardownOrder ==
  [][/\ (fatalErrCh'.closed /\ ~fatalErrCh.closed) => WorkersExited
     /\ haltedCh'.closed => fatalErrCh'.closed]_vars

Dispatched(c) ==
  /\ sessPc = "select"
  /\ cbPc[c] = "sending"
  /\ cbPc'[c] = "returned"

\* A step in which a recoverable condition is handled: the one send of a
\* packet, which may have failed, the log line of a failed send, the
\* dispatch of an operation taken from the operation channel, and the log
\* line of a connection change.
RecoverableStep ==
  \/ sendPc \in {"send", "sendFailed"} /\ sendPc' # sendPc
  \/ \E c \in Callbacks : Dispatched(c)
  \/ sessPc \in {"logWarning", "logDebug"} /\ sessPc' # sessPc

C22_NoSendOnClosedFatalErrCh ==
  [][/\ (startPc = "sendFatal" /\ startPc' # startPc) => ~fatalErrCh.closed
     /\ (cryptoPc = "sendFatal" /\ cryptoPc' # cryptoPc) =>
          ~fatalErrCh.closed]_vars

\* C23: hasPKIDoc is true only in states in which a received document has
\* passed isDocValid.
C23_FlagOnlyAfterValidation == hasPKIDoc => docValidated

====
